---------------------------- MODULE Spec2Model ----------------------------
(***************************************************************************)
(* Model of scripts/utils_aws.py: the cached transcription pipeline        *)
(* transcribe_s3_video_with_cache and the helpers it calls, run by a few   *)
(* concurrent callers against one object store (S3) and one transcription  *)
(* service (Amazon Transcribe).                                            *)
(*                                                                         *)
(* Python strings are TLA+ strings; the string functions the code uses     *)
(* (startswith, replace, split, basename, rsplit, str) are computed        *)
(* character by character with Len, SubSeq and \o.                         *)
(***************************************************************************)
EXTENDS Naturals, Sequences, FiniteSets, TLC

\* ------------------------------------------------------------------ bounds
\* Number of whole seconds the clock advances in one behaviour.
MaxTicks == 1
\* Number of failures of S3, Transcribe or ffmpeg in one behaviour.
MaxFaults == 1
\* Number of status checks of one call that see a running job.
MaxPolls == 1
\* Length of the varying end of a reference (AllRefs).
MaxRest == 4
\* Length of what is said in a video (Texts).
MaxText == 2

\* ------------------------------------------------------ string functions

\* str.startswith
StartsWith(s, pre) ==
    Len(s) >= Len(pre) /\ SubSeq(s, 1, Len(pre)) = pre

\* s with its first n characters dropped
Drop(s, n) == SubSeq(s, n + 1, Len(s))

\* str.replace(old, ""): every non-overlapping occurrence, left to right
RECURSIVE RemoveAll(_, _)
RemoveAll(s, old) ==
    IF Len(s) < Len(old) THEN s
    ELSE IF StartsWith(s, old) THEN RemoveAll(Drop(s, Len(old)), old)
    ELSE SubSeq(s, 1, 1) \o RemoveAll(Drop(s, 1), old)

\* index of the first occurrence of sep in s at or after position i, 0 if none
RECURSIVE FindFrom(_, _, _)
FindFrom(s, sep, i) ==
    IF i + Len(sep) - 1 > Len(s) THEN 0
    ELSE IF SubSeq(s, i, i + Len(sep) - 1) = sep THEN i
    ELSE FindFrom(s, sep, i + 1)

\* index of the last occurrence of the character c in s at or before i, 0 if none
RECURSIVE RFindFrom(_, _, _)
RFindFrom(s, c, i) ==
    IF i = 0 THEN 0
    ELSE IF SubSeq(s, i, i) = c THEN i
    ELSE RFindFrom(s, c, i - 1)

\* str.split(sep, 1): one or two parts
SplitOnce(s, sep) ==
    LET i == FindFrom(s, sep, 1)
    IN  IF i = 0 THEN <<s>>
        ELSE <<SubSeq(s, 1, i - 1), Drop(s, i + Len(sep) - 1)>>

\* str.split(sep): all parts
RECURSIVE Split(_, _)
Split(s, sep) ==
    LET i == FindFrom(s, sep, 1)
    IN  IF i = 0 THEN <<s>>
        ELSE <<SubSeq(s, 1, i - 1)>> \o Split(Drop(s, i + Len(sep) - 1), sep)

\* os.path.basename: what follows the last "/"
Basename(key) == Drop(key, RFindFrom(key, "/", Len(key)))

\* str.rsplit(".", 1)[0]: what precedes the last ".", the whole without one
RsplitDotHead(s) ==
    LET i == RFindFrom(s, ".", Len(s))
    IN  IF i = 0 THEN s ELSE SubSeq(s, 1, i - 1)

Digit(d) == SubSeq("0123456789", d + 1, d + 1)

\* str(n) of a natural number
RECURSIVE IntToStr(_)
IntToStr(n) ==
    IF n < 10 THEN Digit(n) ELSE IntToStr(n \div 10) \o Digit(n % 10)

\* ------------------------------------------------------------- the world

\* The calls of transcribe_s3_video_with_cache of one behaviour: each may
\* start at any time, before, while or after the other runs.
Procs == {"p1", "p2"}

\* time.time() at the start of a behaviour, in whole seconds.
Epoch0 == 9

\* What is said in the two videos of the initial store.
SpeechA == "Hello world. This is a test."
SpeechB == "Hi."

\* An object body: its kind and what it carries.
Body(kind, data) == [kind |-> kind, data |-> data]

\* The object store at the start: videos only, nothing derived yet.
InitStore ==
    (<<"b1", "video/a.mp4">> :> Body("video", SpeechA))
    @@ (<<"b2", "video/a.mov">> :> Body("video", SpeechB))

\* The references callers pass: two videos of the same base name in two
\* containers.
Refs == {"s3://b1/video/a.mp4", "s3://b2/video/a.mov"}

\* Failures of a call to S3 or Transcribe other than what the state decides:
\* an error response of the service (botocore ClientError) or a failure to
\* reach it (a BotoCoreError that is not a ClientError).
Faults == {"AccessDenied", "EndpointConnectionError"}
Outcomes == {"ok"} \cup Faults
IsClientError(cause) == cause \in {"AccessDenied", "NotFound", "ConflictException"}

VARIABLES
    store,      \* S3: <<bucket, key>> -> body, for the objects that exist
    jobs,       \* Transcribe: job name -> job
    now,        \* the last value read from time.time(), in whole seconds
    scratch,    \* local temporary files: name -> body
    call,       \* per call: its locals
    refs,       \* the references callers pass
    budget,     \* calls that may still be started
    faults,     \* failures that may still happen
    nputs       \* writes to the store so far

vars == <<store, jobs, now, scratch, call, refs, budget, faults, nputs>>

Put(s, bucket, key, body) ==
    [x \in DOMAIN s \cup {<<bucket, key>>} |->
        IF x = <<bucket, key>> THEN body ELSE s[x]]

\* S3 has an object under the key of the bucket.
Exists(bucket, key) == <<bucket, key>> \in DOMAIN store

\* ------------------------------------------- transcribe_s3_video_with_cache

\* Mutant: the base name keeps the extension of the file.
VideoNameWithExtension(key) == Basename(key)

\* Mutant: the base name ends at the first "." of the file name.
VideoNameFirstDot(key) ==
    LET b == Basename(key)
        i == FindFrom(b, ".", 1)
    IN  IF i = 0 THEN b ELSE SubSeq(b, 1, i - 1)

\* Lines 124-129: the parse of the reference and the derived keys.  The
\* assert fails without the "s3://" prefix; unpacking split("/", 1) into two
\* names fails (ValueError) when there is no "/" after the prefix is removed.
VideoName(key) == RsplitDotHead(Basename(key))

TranscriptKey(video_name) == "transcription/" \o video_name \o ".txt"

AudioKey(video_name) == "audio/" \o video_name \o ".wav"

\* Mutant: derived objects of every video are kept in the one container "b1".
ParseRefOneContainer(s3_video_uri) ==
    IF ~StartsWith(s3_video_uri, "s3://")
    THEN [ok |-> FALSE, cause |-> "AssertionError"]
    ELSE LET parts == SplitOnce(RemoveAll(s3_video_uri, "s3://"), "/")
         IN  IF Len(parts) # 2
             THEN [ok |-> FALSE, cause |-> "ValueError"]
             ELSE [ok |-> TRUE, cause |-> "",
                   bucket_name |-> "b1", key |-> parts[2],
                   video_name |-> VideoName(parts[2]),
                   transcript_key |-> TranscriptKey(VideoName(parts[2])),
                   audio_key |-> AudioKey(VideoName(parts[2]))]

ParseRef(s3_video_uri) ==
    IF ~StartsWith(s3_video_uri, "s3://")
    THEN [ok |-> FALSE, cause |-> "AssertionError"]
    ELSE LET parts == SplitOnce(RemoveAll(s3_video_uri, "s3://"), "/")
         IN  IF Len(parts) # 2
             THEN [ok |-> FALSE, cause |-> "ValueError"]
             ELSE [ok |-> TRUE, cause |-> "",
                   bucket_name |-> parts[1], key |-> parts[2],
                   video_name |-> VideoName(parts[2]),
                   transcript_key |-> TranscriptKey(VideoName(parts[2])),
                   audio_key |-> AudioKey(VideoName(parts[2]))]

\* Line 150: the job name, from the base name and int(time.time()).
JobName(video_name, t) == "transcribe-" \o video_name \o "-" \o IntToStr(t)

\* Line 83: the key the job writes its output to.
OutputKey(job_name) == "transcription/" \o job_name \o ".json"

\* Line 37: upload_to_s3's return value.
S3Uri(bucket_name, key) == "s3://" \o bucket_name \o "/" \o key

\* The locals of a call that has not started.
NoCall ==
    [id |-> "", pc |-> "idle", s3_video_uri |-> "", bucket_name |-> "",
     key |-> "", video_name |-> "", transcript_key |-> "", audio_key |-> "",
     job_name |-> "", output_json_key |-> "", full_transcript |-> "",
     ret |-> <<"", <<>>, FALSE>>, err |-> [stage |-> "", cause |-> ""],
     trace |-> <<>>, lookup_ver |-> 0, save_ver |-> 0]

\* The call of p with some locals changed.
With(p, c) == [call EXCEPT ![p] = c]

\* An exception leaves transcribe: nothing in it catches one.
Raise(c, stage, cause) ==
    [c EXCEPT !.pc = "raised", !.err = [stage |-> stage, cause |-> cause]]

\* A call to S3, Transcribe or ffmpeg is made: the record of what the
\* transcribe call did, in order.
Did(c, op) == [c EXCEPT !.trace = Append(@, op)]

\* The name of a temporary file: NamedTemporaryFile never reuses a name.
TmpName(c, role) == <<c.id, role>>

\* botocore checks the parameters before it sends a request: Bucket must be a
\* bucket name and Key may not be empty (ParamValidationError, not a
\* ClientError).
ParamsValid(bucket_name, key) == bucket_name # "" /\ key # ""

\* The outcome o of a call to a service: a failure uses up one of those left.
Outcome(o) ==
    /\ o # "ok" => faults > 0
    /\ faults' = IF o = "ok" THEN faults ELSE faults - 1

Ended(c) == c.pc \in {"idle", "returned", "raised"}

\* Calls are interchangeable: the second starts once the first has.
Free(p) == p = "p1" \/ call["p1"].pc # "idle"

\* transcribe_s3_video_with_cache is called with s3_video_uri (lines 113-129).
Start(p, s3_video_uri) ==
    /\ call[p].pc = "idle"
    /\ Free(p)
    /\ budget > 0
    /\ budget' = budget - 1
    /\ LET r == ParseRef(s3_video_uri)
           c == [NoCall EXCEPT !.id = p, !.s3_video_uri = s3_video_uri]
       IN  call' = With(p,
                IF ~r.ok THEN Raise(c, "parse", r.cause)
                ELSE [c EXCEPT !.pc = "check_cache",
                               !.bucket_name = r.bucket_name,
                               !.key = r.key,
                               !.video_name = r.video_name,
                               !.transcript_key = r.transcript_key,
                               !.audio_key = r.audio_key])
    /\ UNCHANGED <<store, jobs, now, scratch, refs, faults, nputs>>

\* Mutant: the answer of head_object is ignored and every call goes on as a
\* miss.
HeadObjectIgnored(p, o) ==
    LET c == call[p] IN
    /\ c.pc = "check_cache"
    /\ call' = With(p,
         IF o = "ok" \/ IsClientError(o)
         THEN [Did(c, "head_object") EXCEPT !.lookup_ver = nputs,
                                            !.pc = "download_video"]
         ELSE Raise(Did(c, "head_object"), "cache-check", o))
    /\ Outcome(o)
    /\ UNCHANGED <<store, jobs, now, scratch, refs, budget, nputs>>

\* check_cache, line 57: head_object.  Any ClientError, the 404 of a missing
\* key or another, is caught (lines 61-62) and the call goes on as a miss.
HeadObject(p, o) ==
    LET c == call[p] IN
    /\ c.pc = "check_cache"
    /\ call' = With(p,
         IF ~ParamsValid(c.bucket_name, c.transcript_key)
         THEN Raise(c, "cache-check", "ParamValidationError")
         ELSE LET d == [Did(c, "head_object") EXCEPT !.lookup_ver = nputs]
              IN  IF o = "ok" /\ Exists(c.bucket_name, c.transcript_key)
                  THEN [d EXCEPT !.pc = "get_object"]
                  ELSE IF o = "ok" \/ IsClientError(o)
                  THEN [d EXCEPT !.pc = "download_video"]
                  ELSE Raise(d, "cache-check", o))
    /\ Outcome(o)
    /\ UNCHANGED <<store, jobs, now, scratch, refs, budget, nputs>>

\* A return whose cache-hit path leaves the text in one piece.
ReturnHitUnsplit(c, text, is_cached) ==
    [c EXCEPT !.pc = "returned",
              !.ret = <<text,
                        IF is_cached THEN <<text>> ELSE Split(text, ". "),
                        is_cached>>]

\* The value transcribe returns (lines 135 and 167).
Return(c, text, is_cached) ==
    [c EXCEPT !.pc = "returned", !.ret = <<text, Split(text, ". "), is_cached>>]

\* check_cache, lines 58-60, and the return of lines 133-135.
GetObject(p, o) ==
    LET c == call[p]
        d == [Did(c, "get_object") EXCEPT !.lookup_ver = nputs]
    IN
    /\ c.pc = "get_object"
    /\ call' = With(p,
         IF o = "ok" /\ Exists(c.bucket_name, c.transcript_key)
         THEN Return(d, store[<<c.bucket_name, c.transcript_key>>].data, TRUE)
         ELSE IF o = "ok" \/ IsClientError(o)
         THEN [d EXCEPT !.pc = "download_video"]
         ELSE Raise(d, "cache-check", o))
    /\ Outcome(o)
    /\ UNCHANGED <<store, jobs, now, scratch, refs, budget, nputs>>

\* download_from_s3 (lines 41-46): what download_file does with the request.
DownloadResult(bucket_name, key, o) ==
    IF ~ParamsValid(bucket_name, key) THEN "ParamValidationError"
    ELSE IF o # "ok" THEN o
    ELSE IF ~Exists(bucket_name, key) THEN "NotFound"
    ELSE "ok"

\* download_from_s3: the temporary file is made (line 44, delete=False)
\* before the download is tried, and is empty if the download fails.
Downloaded(bucket_name, key, o) ==
    IF DownloadResult(bucket_name, key, o) = "ok"
    THEN store[<<bucket_name, key>>]
    ELSE Body("empty", "")

\* Line 139: the video is downloaded to a temporary file.
DownloadVideo(p, o) ==
    LET c == call[p]
        r == DownloadResult(c.bucket_name, c.key, o)
        d == Did(c, "download_file")
    IN
    /\ c.pc = "download_video"
    /\ scratch' = (TmpName(c, "video") :> Downloaded(c.bucket_name, c.key, o))
                    @@ scratch
    /\ call' = With(p, IF r = "ok" THEN [d EXCEPT !.pc = "extract"]
                       ELSE Raise(d, "download", r))
    /\ Outcome(o)
    /\ UNCHANGED <<store, jobs, now, refs, budget, nputs>>

\* extract_audio_ffmpeg (lines 16-30): the .wav file is made (line 18,
\* delete=False), then ffmpeg runs with check=True; it fails on an input that
\* is no video, and may fail on one that is.
ExtractAudio(p, ffmpeg_ok) ==
    LET c == call[p]
        video == scratch[TmpName(c, "video")]
        ok == ffmpeg_ok /\ video.kind = "video"
    IN
    /\ c.pc = "extract"
    /\ scratch' = (TmpName(c, "wav") :>
                     (IF ok THEN Body("wav", video.data) ELSE Body("empty", "")))
                    @@ scratch
    /\ call' = With(p, IF ok THEN [Did(c, "ffmpeg") EXCEPT !.pc = "upload"]
                       ELSE Raise(Did(c, "ffmpeg"), "extract", "CalledProcessError"))
    /\ Outcome(IF ffmpeg_ok THEN "ok" ELSE "CalledProcessError")
    /\ UNCHANGED <<store, jobs, now, refs, budget, nputs>>

\* Mutant: a failed upload is tried again instead of raised.
UploadAudioRetried(p, o) ==
    LET c == call[p]
        d == Did(c, "upload_file")
    IN
    /\ c.pc = "upload"
    /\ IF o = "ok"
       THEN /\ store' = Put(store, c.bucket_name, c.audio_key,
                            scratch[TmpName(c, "wav")])
            /\ nputs' = nputs + 1
            /\ call' = With(p, [d EXCEPT !.pc = "submit"])
       ELSE /\ call' = With(p, d)
            /\ UNCHANGED <<store, nputs>>
    /\ Outcome(o)
    /\ UNCHANGED <<jobs, now, scratch, refs, budget>>

\* Mutant: the call goes on to the job before the upload has written the
\* audio object.
UploadAudioUnawaited(p, o) ==
    LET c == call[p]
        d == Did(c, "upload_file")
    IN
    /\ c.pc = "upload"
    /\ call' = With(p, IF o = "ok" THEN [d EXCEPT !.pc = "submit"]
                       ELSE Raise(d, "upload-audio", o))
    /\ Outcome(o)
    /\ UNCHANGED <<store, nputs, jobs, now, scratch, refs, budget>>

\* upload_to_s3 (lines 33-37), called at line 146 with the audio key.
UploadAudio(p, o) ==
    LET c == call[p]
        d == Did(c, "upload_file")
    IN
    /\ c.pc = "upload"
    /\ IF o = "ok"
       THEN /\ store' = Put(store, c.bucket_name, c.audio_key,
                            scratch[TmpName(c, "wav")])
            /\ nputs' = nputs + 1
            /\ call' = With(p, [d EXCEPT !.pc = "submit"])
       ELSE /\ call' = With(p, Raise(d, "upload-audio", o))
            /\ UNCHANGED <<store, nputs>>
    /\ Outcome(o)
    /\ UNCHANGED <<jobs, now, scratch, refs, budget>>

\* Lines 149-155 and run_transcription_job, lines 83-92: the job is named
\* after the base name and int(time.time()), read now as t, and started.
\* Transcribe refuses a name that a job of the account already has
\* (ConflictException).
StartTranscriptionJob(p, o, t) ==
    LET c == call[p]
        job_name == JobName(c.video_name, t)
        output_key == OutputKey(job_name)
        d == [Did(c, "start_transcription_job") EXCEPT
                 !.job_name = job_name, !.output_json_key = output_key]
    IN
    /\ c.pc = "submit"
    /\ now' = t
    /\ IF o = "ok" /\ job_name \notin DOMAIN jobs
       THEN /\ jobs' = (job_name :>
                          [TranscriptionJobStatus |-> "IN_PROGRESS",
                           MediaFileUri |-> S3Uri(c.bucket_name, c.audio_key),
                           OutputBucketName |-> c.bucket_name,
                           OutputKey |-> output_key]) @@ jobs
            /\ call' = With(p, [d EXCEPT !.pc = "poll"])
       ELSE /\ call' = With(p, Raise(d, "submit",
                                IF o = "ok" THEN "ConflictException" ELSE o))
            /\ UNCHANGED jobs
    /\ Outcome(o)
    /\ UNCHANGED <<store, scratch, refs, budget, nputs>>

\* Status checks a call has made.
Polls(c) == Cardinality({i \in DOMAIN c.trace : c.trace[i] = "get_transcription_job"})

\* Mutant: the check of lines 103-104 is left out, so a FAILED job leaves the
\* loop like a COMPLETED one.
GetTranscriptionJobNoRaise(p, o) ==
    LET c == call[p]
        d == Did(c, "get_transcription_job")
        job_status == jobs[c.job_name].TranscriptionJobStatus
    IN
    /\ c.pc = "poll"
    /\ job_status \in {"COMPLETED", "FAILED"} \/ o # "ok" \/ Polls(c) < MaxPolls
    /\ call' = With(p,
         IF o # "ok" THEN Raise(d, "poll", o)
         ELSE IF job_status \in {"COMPLETED", "FAILED"} THEN [d EXCEPT !.pc = "fetch"]
         ELSE d)
    /\ Outcome(o)
    /\ UNCHANGED <<store, jobs, now, scratch, refs, budget, nputs>>

\* Mutant: only COMPLETED ends the wait loop; a FAILED job is waited for like
\* a running one.
GetTranscriptionJobUntilCompleted(p, o) ==
    LET c == call[p]
        d == Did(c, "get_transcription_job")
        job_status == jobs[c.job_name].TranscriptionJobStatus
    IN
    /\ c.pc = "poll"
    /\ job_status = "COMPLETED" \/ o # "ok" \/ Polls(c) < MaxPolls
    /\ call' = With(p,
         IF o # "ok" THEN Raise(d, "poll", o)
         ELSE IF job_status = "COMPLETED" THEN [d EXCEPT !.pc = "fetch"]
         ELSE d)
    /\ Outcome(o)
    /\ UNCHANGED <<store, jobs, now, scratch, refs, budget, nputs>>

\* Mutant: the wait gives up after MaxPolls checks that found the job running.
GetTranscriptionJobTimesOut(p, o) ==
    LET c == call[p]
        d == Did(c, "get_transcription_job")
        job_status == jobs[c.job_name].TranscriptionJobStatus
    IN
    /\ c.pc = "poll"
    /\ call' = With(p,
         IF o # "ok" THEN Raise(d, "poll", o)
         ELSE IF job_status = "FAILED" THEN Raise(d, "poll", "RuntimeError")
         ELSE IF job_status = "COMPLETED" THEN [d EXCEPT !.pc = "fetch"]
         ELSE IF Polls(c) < MaxPolls THEN d
         ELSE Raise(d, "poll", "TimeoutError"))
    /\ Outcome(o)
    /\ UNCHANGED <<store, jobs, now, scratch, refs, budget, nputs>>

\* run_transcription_job, lines 95-106: one turn of the wait loop.  A
\* terminal status ends the loop: FAILED raises, COMPLETED returns the output
\* key; any other status sleeps and checks again.
GetTranscriptionJob(p, o) ==
    LET c == call[p]
        d == Did(c, "get_transcription_job")
        job_status == jobs[c.job_name].TranscriptionJobStatus
    IN
    /\ c.pc = "poll"
    /\ job_status \in {"COMPLETED", "FAILED"} \/ o # "ok" \/ Polls(c) < MaxPolls
    /\ call' = With(p,
         IF o # "ok" THEN Raise(d, "poll", o)
         ELSE IF job_status = "FAILED" THEN Raise(d, "poll", "RuntimeError")
         ELSE IF job_status = "COMPLETED" THEN [d EXCEPT !.pc = "fetch"]
         ELSE d)
    /\ Outcome(o)
    /\ UNCHANGED <<store, jobs, now, scratch, refs, budget, nputs>>

\* The job's output document, as Transcribe writes it.
JsonDoc(text) == "{\"results\":{\"transcripts\":[{\"transcript\":\"" \o text \o "\"}]}}"

\* json.load and data["results"]["transcripts"][0]["transcript"], lines 159-161.
JsonTranscript(doc) ==
    LET pre == "{\"results\":{\"transcripts\":[{\"transcript\":\""
        rest == Drop(doc, Len(pre))
    IN  SubSeq(rest, 1, FindFrom(rest, "\"", 1) - 1)

\* Lines 158-161: the job's output is downloaded to a temporary file and read.
FetchOutput(p, o) ==
    LET c == call[p]
        r == DownloadResult(c.bucket_name, c.output_json_key, o)
        d == Did(c, "download_file")
        tmp_json == Downloaded(c.bucket_name, c.output_json_key, o)
    IN
    /\ c.pc = "fetch"
    /\ scratch' = (TmpName(c, "json") :> tmp_json) @@ scratch
    /\ call' = With(p,
         IF r = "ok"
         THEN [d EXCEPT !.pc = "save", !.full_transcript = JsonTranscript(tmp_json.data)]
         ELSE Raise(d, "fetch-output", r))
    /\ Outcome(o)
    /\ UNCHANGED <<store, jobs, now, refs, budget, nputs>>

\* Mutant: the transcript is cached under the job's name, not the video's.
SaveTranscriptByJob(p, o) ==
    LET c == call[p]
        d == Did(c, "put_object")
    IN
    /\ c.pc = "save"
    /\ IF o = "ok"
       THEN /\ store' = Put(store, c.bucket_name,
                            "transcription/" \o c.job_name \o ".txt",
                            Body("text", c.full_transcript))
            /\ nputs' = nputs + 1
            /\ call' = With(p, Return([d EXCEPT !.save_ver = nputs + 1],
                                      c.full_transcript, FALSE))
       ELSE /\ call' = With(p, Raise(d, "cache-store", o))
            /\ UNCHANGED <<store, nputs>>
    /\ Outcome(o)
    /\ UNCHANGED <<jobs, now, scratch, refs, budget>>

\* Mutant: only the first sentence of the transcript is cached.
SaveTranscriptFirstSentence(p, o) ==
    LET c == call[p]
        d == Did(c, "put_object")
    IN
    /\ c.pc = "save"
    /\ IF o = "ok"
       THEN /\ store' = Put(store, c.bucket_name, c.transcript_key,
                            Body("text", Split(c.full_transcript, ". ")[1]))
            /\ nputs' = nputs + 1
            /\ call' = With(p, Return([d EXCEPT !.save_ver = nputs + 1],
                                      c.full_transcript, FALSE))
       ELSE /\ call' = With(p, Raise(d, "cache-store", o))
            /\ UNCHANGED <<store, nputs>>
    /\ Outcome(o)
    /\ UNCHANGED <<jobs, now, scratch, refs, budget>>

\* Mutant: a put that fails is followed by a clean-up that deletes the audio
\* object the call uploaded.
SaveTranscriptRollsBack(p, o) ==
    LET c == call[p]
        d == Did(c, "put_object")
    IN
    /\ c.pc = "save"
    /\ IF o = "ok"
       THEN /\ store' = Put(store, c.bucket_name, c.transcript_key,
                            Body("text", c.full_transcript))
            /\ nputs' = nputs + 1
            /\ call' = With(p, Return([d EXCEPT !.save_ver = nputs + 1],
                                      c.full_transcript, FALSE))
       ELSE /\ call' = With(p, Raise(d, "cache-store", o))
            /\ store' = [x \in DOMAIN store \ {<<c.bucket_name, c.audio_key>>}
                            |-> store[x]]
            /\ UNCHANGED nputs
    /\ Outcome(o)
    /\ UNCHANGED <<jobs, now, scratch, refs, budget>>

\* save_transcript_cache (lines 65-68), called at line 165, and the return of
\* line 167.
SaveTranscript(p, o) ==
    LET c == call[p]
        d == Did(c, "put_object")
    IN
    /\ c.pc = "save"
    /\ IF o = "ok"
       THEN /\ store' = Put(store, c.bucket_name, c.transcript_key,
                            Body("text", c.full_transcript))
            /\ nputs' = nputs + 1
            /\ call' = With(p, Return([d EXCEPT !.save_ver = nputs + 1],
                                      c.full_transcript, FALSE))
       ELSE /\ call' = With(p, Raise(d, "cache-store", o))
            /\ UNCHANGED <<store, nputs>>
    /\ Outcome(o)
    /\ UNCHANGED <<jobs, now, scratch, refs, budget>>

\* ---------------------------------------------------------- the environment

\* The bucket and key of an s3:// URI, as Transcribe reads MediaFileUri.
MediaObject(uri) ==
    LET parts == SplitOnce(Drop(uri, Len("s3://")), "/")
    IN  <<parts[1], parts[2]>>

\* Transcribe finishes a job: it reads the audio and writes the output
\* document under OutputKey in OutputBucketName.
JobCompletes(j) ==
    LET job == jobs[j]
        media == MediaObject(job.MediaFileUri)
    IN
    /\ job.TranscriptionJobStatus = "IN_PROGRESS"
    /\ media \in DOMAIN store
    /\ store[media].kind = "wav"
    /\ jobs' = [jobs EXCEPT ![j].TranscriptionJobStatus = "COMPLETED"]
    /\ store' = Put(store, job.OutputBucketName, job.OutputKey,
                    Body("json", JsonDoc(store[media].data)))
    /\ nputs' = nputs + 1
    /\ UNCHANGED <<now, scratch, call, refs, budget, faults>>

\* Transcribe gives a job up.
JobFails(j) ==
    /\ jobs[j].TranscriptionJobStatus = "IN_PROGRESS"
    /\ jobs' = [jobs EXCEPT ![j].TranscriptionJobStatus = "FAILED"]
    /\ UNCHANGED <<store, now, scratch, call, refs, budget, faults, nputs>>

\* ------------------------------------------------------- the specification

\* What time.time() may return, in whole seconds: the clock does not go back.
Clock == now .. Epoch0 + MaxTicks

Empty == [x \in {} |-> 0]

Init ==
    /\ store = InitStore
    /\ jobs = Empty
    /\ now = Epoch0
    /\ scratch = Empty
    /\ call = [p \in Procs |-> NoCall]
    /\ refs = Refs
    /\ budget = Cardinality(Procs)
    /\ faults = MaxFaults
    /\ nputs = 0

Next ==
    \/ \E p \in Procs, u \in refs : Start(p, u)
    \/ \E p \in Procs, o \in Outcomes : HeadObject(p, o)
    \/ \E p \in Procs, o \in Outcomes : GetObject(p, o)
    \/ \E p \in Procs, o \in Outcomes : DownloadVideo(p, o)
    \/ \E p \in Procs, ffmpeg_ok \in BOOLEAN : ExtractAudio(p, ffmpeg_ok)
    \/ \E p \in Procs, o \in Outcomes : UploadAudio(p, o)
    \/ \E p \in Procs, o \in Outcomes, t \in Clock : StartTranscriptionJob(p, o, t)
    \/ \E p \in Procs, o \in Outcomes : GetTranscriptionJob(p, o)
    \/ \E p \in Procs, o \in Outcomes : FetchOutput(p, o)
    \/ \E p \in Procs, o \in Outcomes : SaveTranscript(p, o)
    \/ \E j \in DOMAIN jobs : JobCompletes(j)
    \/ \E j \in DOMAIN jobs : JobFails(j)

Spec == Init /\ [][Next]_vars

\* The next step of the call of p, once it has started: the code of
\* transcribe runs on without waiting for anything but the services it
\* calls and the sleep between two status checks.
CallStep(p) ==
    \/ \E o \in Outcomes : HeadObject(p, o)
    \/ \E o \in Outcomes : GetObject(p, o)
    \/ \E o \in Outcomes : DownloadVideo(p, o)
    \/ \E ffmpeg_ok \in BOOLEAN : ExtractAudio(p, ffmpeg_ok)
    \/ \E o \in Outcomes : UploadAudio(p, o)
    \/ \E o \in Outcomes, t \in Clock : StartTranscriptionJob(p, o, t)
    \/ \E o \in Outcomes : GetTranscriptionJob(p, o)
    \/ \E o \in Outcomes : FetchOutput(p, o)
    \/ \E o \in Outcomes : SaveTranscript(p, o)

\* Every call that can take a step takes one in the end; nothing is assumed
\* of Transcribe.
Fairness == \A p \in Procs : WF_vars(CallStep(p))

\* One call for either of the two videos; an earlier run may have cached the
\* transcript of the first.
InitOne ==
    \E cached \in BOOLEAN :
        /\ store = IF cached
                   THEN Put(InitStore, "b1", "transcription/a.txt",
                            Body("text", SpeechA))
                   ELSE InitStore
        /\ jobs = Empty
        /\ now = Epoch0
        /\ scratch = Empty
        /\ call = [p \in Procs |-> NoCall]
        /\ refs = Refs
        /\ budget = 1
        /\ faults = MaxFaults
        /\ nputs = 0

SpecFair == InitOne /\ [][Next]_vars /\ Fairness

\* Every string over alphabet of length at most n.
RECURSIVE Strings(_, _)
Strings(alphabet, n) ==
    IF n = 0 THEN {""}
    ELSE LET shorter == Strings(alphabet, n - 1)
         IN  shorter \cup {s \o a : s \in shorter, a \in alphabet}

\* References of every shape: with the scheme, with part of it or without
\* it, with and without a container, a separator, a key, a directory, an
\* extension.
RefPrefixes == {"s3://b1/video/", "s3://b1/", "s3://", "s3:/", ""}
AllRefs == {pre \o rest : pre \in RefPrefixes, rest \in Strings({"a", ".", "/"}, MaxRest)}

\* One call with one reference of any shape.  The video it names is in the
\* store if it names one; a transcript cached by an earlier run may be there.
InitRefs ==
    \E u \in AllRefs, cached \in BOOLEAN :
        LET r == ParseRef(u)
            video == IF r.ok /\ ParamsValid(r.bucket_name, r.key)
                     THEN <<r.bucket_name, r.key>> :> Body("video", SpeechA)
                     ELSE Empty
            text == IF r.ok /\ cached
                    THEN <<r.bucket_name, r.transcript_key>> :> Body("text", SpeechB)
                    ELSE Empty
        IN  /\ store = video @@ text
            /\ jobs = Empty
            /\ now = Epoch0
            /\ scratch = Empty
            /\ call = [p \in Procs |-> NoCall]
            /\ refs = {u}
            /\ budget = 1
            /\ faults = MaxFaults
            /\ nputs = 0

SpecRefs == InitRefs /\ [][Next]_vars

\* ----------------------------------------------------------------- claims

\* What a transcribe call did after its cache lookup.
AfterLookup(c) ==
    LET n == Cardinality({i \in DOMAIN c.trace :
                            c.trace[i] \in {"head_object", "get_object"}})
    IN  Drop(c.trace, n)

Has(c, op) == \E i \in DOMAIN c.trace : c.trace[i] = op

\* The miss path in full, with k status checks.
Pipeline(k) ==
    <<"download_file", "ffmpeg", "upload_file", "start_transcription_job">>
    \o [i \in 1..k |-> "get_transcription_job"]
    \o <<"download_file", "put_object">>

\* The scratch files of a call that exist.
ScratchOf(c) == {f \in DOMAIN scratch : f[1] = c.id}

\* The step is a step of call p that no failure of a service disturbs.
Served(p) == call'[p] # call[p] /\ faults' = faults

\* C1: when the transcript key of a call holds text T at its cache lookup
\* and the store serves the lookup, the call returns (T, segments, True),
\* and all it has done is the head_object and the get_object of the lookup:
\* no download, no ffmpeg, no upload, no job, no status check, no put, no
\* scratch file.
C1_CacheHitSkipsPipeline ==
    /\ [][\A p \in Procs :
            LET c == call[p]
                k == <<c.bucket_name, c.transcript_key>>
            IN  /\ (c.pc = "check_cache" /\ Served(p) /\ k \in DOMAIN store)
                      => call'[p].pc = "get_object"
                /\ (c.pc = "get_object" /\ Served(p) /\ k \in DOMAIN store)
                      => /\ call'[p].pc = "returned"
                         /\ call'[p].ret[1] = store[k].data
                         /\ call'[p].ret[3] = TRUE
                         /\ store' = store]_vars
    /\ [](\A p \in Procs :
            (call[p].pc = "returned" /\ call[p].ret[3])
                => /\ call[p].trace = <<"head_object", "get_object">>
                   /\ ScratchOf(call[p]) = {})
    /\ [][\A p \in Procs : call[p].pc = "returned" => call'[p] = call[p]]_vars

\* C1 witness: a call has returned the cached transcript of an earlier call.
C1_Witness ==
    \E p, q \in Procs :
        /\ call[p].pc = "returned" /\ call[p].ret[3]
        /\ call[q].pc = "returned" /\ ~call[q].ret[3]
        /\ call[p].ret[1] = call[q].ret[1]
        /\ call[p].ret[1] = SpeechA

\* The status of the job a call started, "none" if it started none.
OwnJobStatus(c) ==
    IF Has(c, "start_transcription_job") /\ c.pc # "idle"
       /\ ~(c.pc = "raised" /\ c.err.stage = "submit")
    THEN jobs[c.job_name].TranscriptionJobStatus
    ELSE "none"

\* No call to a service has failed so far.
NoFault == faults = MaxFaults

\* The lookup of the call is over.
PastLookup(c) == c.pc \notin {"idle", "check_cache", "get_object"}

\* C2: with no failure of a service, a call that missed the cache and whose
\* job completed has, once it ends, run the whole pipeline and returned
\* (T, segments, False); and a call for the same reference whose lookup came
\* after that call's save, with no write to the store in between, returns
\* (T, segments, True) with the same T.
C2_MissThenHit ==
    /\ \A p \in Procs :
        LET c == call[p] IN
        (NoFault /\ Ended(c) /\ OwnJobStatus(c) = "COMPLETED")
            => /\ c.pc = "returned"
               /\ c.ret[3] = FALSE
               /\ c.trace = <<"head_object">> \o Pipeline(Polls(c))
               /\ c.save_ver > 0
    /\ \A p, q \in Procs :
        LET c == call[p]
            d == call[q]
        IN  (/\ NoFault
             /\ c.pc = "returned" /\ ~c.ret[3]
             /\ d.s3_video_uri = c.s3_video_uri
             /\ PastLookup(d)
             /\ d.lookup_ver = c.save_ver)
                => /\ d.pc = "returned"
                   /\ d.ret = <<c.ret[1], c.ret[2], TRUE>>

\* C2 witness: a miss that returned, then a hit for the same reference whose
\* lookup saw the store as the miss's save left it.
C2_Witness ==
    \E p, q \in Procs :
        /\ NoFault
        /\ call[p].pc = "returned" /\ ~call[p].ret[3]
        /\ call[p].trace = <<"head_object">> \o Pipeline(1)
        /\ call[q].pc = "returned" /\ call[q].ret[3]
        /\ call[q].s3_video_uri = call[p].s3_video_uri
        /\ call[q].lookup_ver = call[p].save_ver
        /\ call[q].ret[1] = call[p].ret[1]

\* C3: a call whose job has reached FAILED never gets past the status
\* checks and never writes the transcript key; when it ends, it ends in an
\* error raised in run_transcription_job's wait (the RuntimeError of line 104
\* unless the status check itself failed first).
C3_FailedJobIsolated ==
    \A p \in Procs :
        LET c == call[p] IN
        OwnJobStatus(c) = "FAILED"
            => /\ c.pc \in {"poll", "raised"}
               /\ ~Has(c, "put_object")
               /\ c.save_ver = 0
               /\ c.pc = "raised" => c.err.stage = "poll"
               /\ (c.pc = "raised" /\ NoFault) => c.err.cause = "RuntimeError"

\* C3 witness: a call has raised the RuntimeError of a FAILED job.
C3_Witness ==
    \E p \in Procs :
        /\ OwnJobStatus(call[p]) = "FAILED"
        /\ call[p].pc = "raised"
        /\ call[p].err = [stage |-> "poll", cause |-> "RuntimeError"]
        /\ <<call[p].bucket_name, call[p].transcript_key>> \notin DOMAIN store

\* C4 (as claimed): a step of the cache lookup that a failure of the store
\* hits ends the call in an error, and the lookup goes on to the miss path
\* only when no failure hit it and the key is not in the store.
C4_LookupFailurePropagates ==
    [][\A p \in Procs :
          LET c == call[p] IN
          (c.pc \in {"check_cache", "get_object"} /\ call'[p] # c)
              => /\ faults' < faults => call'[p].pc = "raised"
                 /\ call'[p].pc = "download_video"
                       => /\ faults' = faults
                          /\ <<c.bucket_name, c.transcript_key>> \notin DOMAIN store]_vars

\* A reference that is not scheme://container/key: no scheme, no "/" after
\* the container, or nothing after that "/".
Malformed(u) ==
    LET i == FindFrom(u, "://", 1)
        rest == Drop(u, i + 2)
        j == FindFrom(rest, "/", 1)
    IN  i <= 1 \/ j = 0 \/ j = Len(rest)

\* C5 (as claimed): a call with a malformed reference has failed in the
\* parse, before any call to S3 or Transcribe, and nothing was written.
C5_MalformedRejected ==
    \A p \in Procs :
        LET c == call[p] IN
        (c.pc # "idle" /\ Malformed(c.s3_video_uri))
            => /\ c.pc = "raised"
               /\ c.err.stage = "parse"
               /\ c.trace = <<>>
               /\ nputs = 0

\* Both calls went down the miss path.
BothMissed(c, d) ==
    /\ PastLookup(c) /\ ~(c.pc = "returned" /\ c.ret[3])
    /\ PastLookup(d) /\ ~(d.pc = "returned" /\ d.ret[3])

\* C6 (as claimed): two calls for the same reference that both missed the
\* cache, with no failure of a service and no failed job, have both, once
\* they have ended, run the pipeline, written the transcript key and
\* returned the video's transcript with is_cached=False, and the key holds it.
C6_DuplicateWorkHarmless ==
    \A p, q \in Procs :
        LET c == call[p]
            d == call[q]
        IN  (/\ p # q
             /\ c.s3_video_uri = d.s3_video_uri
             /\ BothMissed(c, d)
             /\ NoFault
             /\ OwnJobStatus(c) # "FAILED" /\ OwnJobStatus(d) # "FAILED"
             /\ Ended(c) /\ Ended(d))
                => /\ c.pc = "returned" /\ ~c.ret[3]
                   /\ Has(c, "put_object")
                   /\ c.ret[1] = InitStore[<<c.bucket_name, c.key>>].data
                   /\ store[<<c.bucket_name, c.transcript_key>>].data = c.ret[1]

\* C7 (as claimed): two calls for the same reference that have both
\* submitted a job have given their jobs different names.
C7_JobNamesDistinct ==
    \A p, q \in Procs :
        (/\ p # q
         /\ call[p].s3_video_uri = call[q].s3_video_uri
         /\ Has(call[p], "start_transcription_job")
         /\ Has(call[q], "start_transcription_job"))
            => call[p].job_name # call[q].job_name

\* C8 (as claimed): a call that has ended has left no scratch file.
C8_ScratchReleased ==
    \A p \in Procs : Ended(call[p]) => ScratchOf(call[p]) = {}

\* The stage of the n-th step of the miss path, with k status checks.
StageAt(n, k) ==
    IF n = 1 THEN "download"
    ELSE IF n = 2 THEN "extract"
    ELSE IF n = 3 THEN "upload-audio"
    ELSE IF n = 4 THEN "submit"
    ELSE IF n <= 4 + k THEN "poll"
    ELSE IF n = 5 + k THEN "fetch-output"
    ELSE "cache-store"

Extensions == Strings({"a"}, MaxRest)

EndsWith(s, suf) ==
    Len(s) >= Len(suf) /\ SubSeq(s, Len(s) - Len(suf) + 1, Len(s)) = suf

\* key is video/<name>.<ext> for a file name <name>, which has no "/".
IsVideoKey(key, name, ext) ==
    /\ key = "video/" \o name \o "." \o ext
    /\ FindFrom(name, "/", 1) = 0

\* <name> of a key that is video/<name>.<ext>.
NamePart(key, ext) == SubSeq(key, Len("video/") + 1, Len(key) - Len(ext) - 1)

\* C10: a call for a video at key video/<name>.<ext> uses the transcript key
\* transcription/<name>.txt and the audio key audio/<name>.wav, and once it
\* has submitted its job, at second t, the output key
\* transcription/transcribe-<name>-<t>.json.
C10_KeyScheme ==
    \A p \in Procs : \A ext \in Extensions :
        LET c == call[p]
            name == NamePart(c.key, ext)
        IN
        (/\ c.pc \notin {"idle", "raised"}
         /\ StartsWith(c.key, "video/")
         /\ EndsWith(c.key, "." \o ext)
         /\ IsVideoKey(c.key, name, ext))
            => /\ c.video_name = name
               /\ c.transcript_key = "transcription/" \o name \o ".txt"
               /\ c.audio_key = "audio/" \o name \o ".wav"
               /\ Has(c, "start_transcription_job")
                     => /\ c.job_name = "transcribe-" \o name \o "-" \o IntToStr(now)
                        /\ c.output_json_key =
                             "transcription/transcribe-" \o name \o "-"
                                \o IntToStr(now) \o ".json"

\* C10 witness: a call for video/a..a, a file named "a." with extension "a",
\* has submitted its job at second 10 and returned.
C10_Witness ==
    \E p \in Procs :
        /\ call[p].s3_video_uri = "s3://b1/video/a..a"
        /\ call[p].transcript_key = "transcription/a..txt"
        /\ call[p].audio_key = "audio/a..wav"
        /\ call[p].output_json_key = "transcription/transcribe-a.-10.json"
        /\ call[p].pc = "returned"

\* What may be said in a video: every short text of letters, full stops and
\* spaces, and the two of the initial store.
Texts == Strings({"a", ".", " "}, MaxText) \cup {SpeechA, SpeechB, "a. a. "}

\* Two calls for one video in which any of the texts is said; no service
\* fails.
InitText ==
    \E t \in Texts :
        /\ store = (<<"b1", "video/a.mp4">> :> Body("video", t))
        /\ jobs = Empty
        /\ now = Epoch0
        /\ scratch = Empty
        /\ call = [p \in Procs |-> NoCall]
        /\ refs = {"s3://b1/video/a.mp4"}
        /\ budget = Cardinality(Procs)
        /\ faults = 0
        /\ nputs = 0

SpecText == InitText /\ [][Next]_vars

\* ------------------------------------------------- the front end (app.py)

\* app.py, line 52: the container the front end uploads to.
Library == "meeting-mind-library"

\* The name of the files users upload, and the video that is in the library
\* from the start: same base name, another directory, another extension.
FileNames == {"a.mp4"}
OldVideo == "video/old/a.mov"

\* Mutant: an upload removes the transcript cached under the name of the file.
StartButtonInvalidates(p, original_filename, text, o) ==
    LET key == "video/" \o original_filename
        s3_uri == S3Uri(Library, key)
        r == ParseRef(s3_uri)
        c == [NoCall EXCEPT !.id = p, !.s3_video_uri = s3_uri]
        kept == DOMAIN store \ {<<Library, TranscriptKey(VideoName(key))>>}
    IN
    /\ call[p].pc = "idle"
    /\ Free(p)
    /\ budget > 0
    /\ budget' = budget - 1
    /\ scratch' = (<<"tmp", original_filename>> :> Body("video", text)) @@ scratch
    /\ IF o = "ok"
       THEN /\ store' = Put([x \in kept |-> store[x]], Library, key,
                            Body("video", text))
            /\ nputs' = nputs + 1
            /\ refs' = refs \cup {s3_uri}
            /\ call' = With(p, [c EXCEPT !.pc = "check_cache",
                                         !.bucket_name = r.bucket_name,
                                         !.key = r.key,
                                         !.video_name = r.video_name,
                                         !.transcript_key = r.transcript_key,
                                         !.audio_key = r.audio_key])
       ELSE /\ call' = With(p, Raise(c, "upload-video", o))
            /\ UNCHANGED <<store, nputs, refs>>
    /\ Outcome(o)
    /\ UNCHANGED <<jobs, now>>

\* app.py, lines 42-61: a user uploads a file and presses the button.  The
\* file is written to the temporary directory under its own name (lines
\* 45-50), uploaded to video/<original filename> of the library (lines
\* 52-56, upload_to_s3), and transcribe is called with the URI upload_to_s3
\* returns (line 61, through transcript_to_text).
StartButton(p, original_filename, text, o) ==
    LET key == "video/" \o original_filename
        s3_uri == S3Uri(Library, key)
        r == ParseRef(s3_uri)
        c == [NoCall EXCEPT !.id = p, !.s3_video_uri = s3_uri]
    IN
    /\ call[p].pc = "idle"
    /\ Free(p)
    /\ budget > 0
    /\ budget' = budget - 1
    /\ scratch' = (<<"tmp", original_filename>> :> Body("video", text)) @@ scratch
    /\ IF o = "ok"
       THEN /\ store' = Put(store, Library, key, Body("video", text))
            /\ nputs' = nputs + 1
            /\ refs' = refs \cup {s3_uri}
            /\ call' = With(p, [c EXCEPT !.pc = "check_cache",
                                         !.bucket_name = r.bucket_name,
                                         !.key = r.key,
                                         !.video_name = r.video_name,
                                         !.transcript_key = r.transcript_key,
                                         !.audio_key = r.audio_key])
       ELSE /\ call' = With(p, Raise(c, "upload-video", o))
            /\ UNCHANGED <<store, nputs, refs>>
    /\ Outcome(o)
    /\ UNCHANGED <<jobs, now>>

\* The library holds one video; users upload files and press the button, or
\* give the URI of a video of the library (app.py, line 36).  No service
\* fails.
InitApp ==
    /\ store = (<<Library, OldVideo>> :> Body("video", SpeechB))
    /\ jobs = Empty
    /\ now = Epoch0
    /\ scratch = Empty
    /\ call = [p \in Procs |-> NoCall]
    /\ refs = {S3Uri(Library, OldVideo)}
    /\ budget = Cardinality(Procs)
    /\ faults = 0
    /\ nputs = 0

NextApp ==
    \/ \E p \in Procs, f \in FileNames, text \in {SpeechA, SpeechB}, o \in Outcomes :
          StartButton(p, f, text, o)
    \/ Next

SpecApp == InitApp /\ [][NextApp]_vars

\* ---------------------------------------------------------------- C11

\* The pieces of segs with sep between them.
RECURSIVE Join(_, _)
Join(segs, sep) ==
    IF Len(segs) = 0 THEN ""
    ELSE IF Len(segs) = 1 THEN segs[1]
    ELSE segs[1] \o sep \o Join(Tail(segs), sep)

Returned(p) == call[p].pc = "returned"

\* C11: whatever path a call returns by, its segments are its text cut at
\* every ". ": no segment holds the delimiter and the segments joined with
\* it give back the text; "Hello world. This is a test." gives "Hello world"
\* and "This is a test."; two calls that return the same text, one from the
\* cache and one from the pipeline, return the same segments.
C11_SegmentsSplitLaw ==
    /\ \A p \in Procs :
          Returned(p) =>
              LET text == call[p].ret[1]
                  segs == call[p].ret[2]
              IN  /\ Len(segs) >= 1
                  /\ \A i \in 1..Len(segs) : FindFrom(segs[i], ". ", 1) = 0
                  /\ Join(segs, ". ") = text
                  /\ text = "Hello world. This is a test."
                         => segs = <<"Hello world", "This is a test.">>
    /\ \A p, q \in Procs :
          (Returned(p) /\ Returned(q) /\ call[p].ret[1] = call[q].ret[1])
              => call[p].ret[2] = call[q].ret[2]

\* A miss and a hit have both returned the example text in its two segments.
C11_Witness ==
    \E p, q \in Procs :
        /\ Returned(p) /\ Returned(q)
        /\ call[p].ret = <<SpeechA, <<"Hello world", "This is a test.">>, FALSE>>
        /\ call[q].ret = <<SpeechA, <<"Hello world", "This is a test.">>, TRUE>>

\* ---------------------------------------------------------------- C12

IsPrefix(s, t) == Len(s) <= Len(t) /\ SubSeq(t, 1, Len(s)) = s

\* The call is on the miss path: its lookup is over and found no text.
Missed(c) ==
    /\ PastLookup(c)
    /\ ~(c.pc = "returned" /\ c.ret[3])
    /\ ~(c.pc = "raised" /\ c.err.stage \in {"parse", "cache-check"})

\* Downloads the call has asked for.
Downloads(c) == Cardinality({i \in DOMAIN c.trace : c.trace[i] = "download_file"})

\* C12: what a call that misses the cache has done is, at every moment, the
\* cache lookup followed by a prefix of download, ffmpeg, upload, job
\* submission, status checks, output download, transcript put, in this order;
\* once it has asked for the job the audio object is in the store; once it
\* has asked for the output its last status check saw the job COMPLETED; once
\* it has put the transcript it holds the text of the output it fetched.
C12_StageOrder ==
    \A p \in Procs :
        LET c == call[p]
            lookup == SubSeq(c.trace, 1, Len(c.trace) - Len(AfterLookup(c)))
        IN  Missed(c) =>
              /\ lookup \in {<<"head_object">>, <<"head_object", "get_object">>}
              /\ IsPrefix(AfterLookup(c), Pipeline(Polls(c)))
              /\ Has(c, "start_transcription_job") =>
                    /\ Exists(c.bucket_name, c.audio_key)
                    /\ store[<<c.bucket_name, c.audio_key>>].kind = "wav"
              /\ Downloads(c) = 2 =>
                    /\ Polls(c) >= 1
                    /\ jobs[c.job_name].TranscriptionJobStatus = "COMPLETED"
                    /\ Exists(c.bucket_name, c.output_json_key)
              /\ Has(c, "put_object") =>
                    /\ Downloads(c) = 2
                    /\ TmpName(c, "json") \in DOMAIN scratch
                    /\ c.full_transcript
                         = JsonTranscript(scratch[TmpName(c, "json")].data)

\* A call has missed, waited through a status check that found the job
\* running, and gone through every stage to its return.
C12_Witness ==
    \E p \in Procs :
        /\ call[p].pc = "returned"
        /\ call[p].trace = <<"head_object">> \o Pipeline(2)
        /\ Exists(call[p].bucket_name, call[p].audio_key)
        /\ jobs[call[p].job_name].TranscriptionJobStatus = "COMPLETED"

\* ---------------------------------------------------------------- C13

\* The call waits for its job, and the job has the status.
WaitsWith(p, status) ==
    /\ call[p].pc = "poll"
    /\ jobs[call[p].job_name].TranscriptionJobStatus = status

\* The call has ended in the failure of a service it called.
FailedByFault(c) == c.pc = "raised" /\ c.err.cause \in Faults

\* C13: a call that waits for a job with status FAILED ends in an error in
\* the end, and one that waits for a job with status COMPLETED returns in the
\* end unless a service it calls fails; the status check that sees the
\* terminal status ends the wait (RuntimeError on FAILED, on to the output on
\* COMPLETED), and a call that has left the wait checks no status again.
C13_PollTerminates ==
    /\ \A p \in Procs :
          /\ WaitsWith(p, "FAILED") ~> (call[p].pc = "raised")
          /\ WaitsWith(p, "COMPLETED")
               ~> (call[p].pc = "returned" \/ FailedByFault(call[p]))
    /\ [][\A p \in Procs :
            /\ (WaitsWith(p, "FAILED") /\ Served(p))
                 => /\ call'[p].pc = "raised"
                    /\ call'[p].err = [stage |-> "poll", cause |-> "RuntimeError"]
            /\ (WaitsWith(p, "COMPLETED") /\ Served(p))
                 => call'[p].pc = "fetch"
            /\ call[p].pc \in {"fetch", "save", "returned", "raised"}
                 => /\ call'[p].pc # "poll"
                    /\ Polls(call'[p]) = Polls(call[p])]_vars

\* A call has ended in the error of its failed job after two status checks:
\* the first found the job running, the second found it FAILED.
C13_Witness ==
    \E p \in Procs :
        /\ call[p].pc = "raised" /\ call[p].err.cause = "RuntimeError"
        /\ Polls(call[p]) = 2
        /\ call[p].trace[Len(call[p].trace)] = "get_transcription_job"
        /\ jobs[call[p].job_name].TranscriptionJobStatus = "FAILED"

\* ---------------------------------------------------------------- C14

\* C14 (as claimed): a call whose job is submitted and has no terminal status
\* is in the wait loop: it has not returned, not failed, not gone on to the
\* output or the transcript.
C14_WaitsWhileRunning ==
    \A p \in Procs :
        OwnJobStatus(call[p]) = "IN_PROGRESS" => call[p].pc = "poll"

\* C14 (amended): the wait has no limit of its own.  A call leaves the wait
\* loop only in a status check; a check the service answers while the job is
\* running leaves the call in the loop, however many checks it has made; and
\* a call whose job is running is in the loop or has ended in the failure of
\* a status check.
C14_NoTimeout ==
    /\ [][\A p \in Procs :
            (call[p].pc = "poll" /\ call'[p] # call[p]) =>
                /\ call'[p].trace = Append(call[p].trace, "get_transcription_job")
                /\ (WaitsWith(p, "IN_PROGRESS") /\ Served(p))
                      => call'[p].pc = "poll"
                /\ (WaitsWith(p, "IN_PROGRESS") /\ ~Served(p))
                      => /\ FailedByFault(call'[p])
                         /\ call'[p].err.stage = "poll"]_vars
    /\ [](\A p \in Procs :
            OwnJobStatus(call[p]) = "IN_PROGRESS" =>
                \/ call[p].pc = "poll"
                \/ FailedByFault(call[p]) /\ call[p].err.stage = "poll")

\* A call is still in the wait loop after as many checks as the model lets
\* find the job running.
C14_Witness ==
    \E p \in Procs :
        /\ WaitsWith(p, "IN_PROGRESS")
        /\ Polls(call[p]) = MaxPolls

\* ---------------------------------------------------------------- C15

\* The call has failed at the stage.
FailedAt(c, stages) == c.pc = "raised" /\ c.err.stage \in stages

\* C15: a call that has failed at the job submission, in the wait, at the
\* download of the output or at the put of the transcript has left the audio
\* object it uploaded in the store, with the audio it extracted, and, if its
\* job had completed, the job's output; the step in which a call fails
\* changes nothing in the store, and no step of any call removes an object.
C15_NoRollback ==
    /\ [](\A p \in Procs :
            LET c == call[p] IN
            /\ FailedAt(c, {"submit", "poll", "fetch-output", "cache-store"}) =>
                  /\ Exists(c.bucket_name, c.audio_key)
                  /\ store[<<c.bucket_name, c.audio_key>>] = scratch[TmpName(c, "wav")]
            /\ FailedAt(c, {"fetch-output", "cache-store"}) =>
                  /\ Exists(c.bucket_name, c.output_json_key)
                  /\ store[<<c.bucket_name, c.output_json_key>>].kind = "json")
    /\ [][/\ DOMAIN store \subseteq DOMAIN store'
          /\ \A p \in Procs :
                (call[p].pc # "raised" /\ call'[p].pc = "raised")
                    => store' = store]_vars

\* A call has failed at the put of the transcript: the audio object and the
\* job's output are in the store, the transcript is not.
C15_Witness ==
    \E p \in Procs :
        /\ FailedAt(call[p], {"cache-store"})
        /\ Exists(call[p].bucket_name, call[p].audio_key)
        /\ Exists(call[p].bucket_name, call[p].output_json_key)
        /\ ~Exists(call[p].bucket_name, call[p].transcript_key)
        /\ store[<<call[p].bucket_name, call[p].audio_key>>].kind = "wav"

\* ---------------------------------------------------------------- C16

\* Puts of the transcript the call has asked for.
Puts(c) == Cardinality({i \in DOMAIN c.trace : c.trace[i] = "put_object"})

\* The step is the return of call p.
Returns(p) == call[p].pc # "returned" /\ call'[p].pc = "returned"

\* C16: a call that returns with is_cached=False has put the transcript once,
\* in the step of its return: the put leaves under the transcript key the
\* very text the call returns, which is the transcript of its job's output
\* document; a call that returns with is_cached=True has put nothing and its
\* return changes nothing in the store.
C16_WrittenOnce ==
    /\ [](\A p \in Procs :
            Returned(p) => Puts(call[p]) = (IF call[p].ret[3] THEN 0 ELSE 1))
    /\ [][\A p \in Procs :
            LET c == call[p]
                text == call'[p].ret[1]
            IN  Returns(p) =>
                  IF call'[p].ret[3]
                  THEN store' = store
                  ELSE /\ store' = Put(store, c.bucket_name, c.transcript_key,
                                       Body("text", text))
                       /\ Exists(c.bucket_name, c.output_json_key)
                       /\ JsonDoc(text)
                            = store[<<c.bucket_name, c.output_json_key>>].data]_vars

\* One call has returned the text of the second video after one put, the
\* transcript key holds that text, and another call has returned it from the
\* cache without a put.
C16_Witness ==
    \E p, q \in Procs :
        /\ Returned(p) /\ ~call[p].ret[3] /\ Puts(call[p]) = 1
        /\ call[p].ret[1] = SpeechB
        /\ store[<<"b2", "transcription/a.txt">>] = Body("text", SpeechB)
        /\ Returned(q) /\ call[q].ret[3] /\ Puts(call[q]) = 0
        /\ call[q].ret[1] = SpeechB

\* ---------------------------------------------------------------- C17

\* The container a reference names, and the video it names.
ContainerOf(c) == MediaObject(c.s3_video_uri)[1]
VideoOf(c) == store[MediaObject(c.s3_video_uri)]

\* Calls for two videos of one base name in two containers.
AcrossContainers(c, d) ==
    /\ c.pc # "idle" /\ d.pc # "idle"
    /\ ContainerOf(c) # ContainerOf(d)
    /\ c.video_name = d.video_name

\* The lookup of call c came after the save of call d.
LookupAfterSave(c, d) ==
    /\ d.pc = "returned" /\ ~d.ret[3]
    /\ PastLookup(c)
    /\ c.lookup_ver >= d.save_ver

\* C17 (as claimed): of two calls for videos of one base name in two
\* containers, the one whose lookup comes after the other has cached its
\* transcript is a cache hit and returns the other video's transcript.
C17_CrossContainerHit ==
    \A p, q \in Procs :
        (/\ AcrossContainers(call[p], call[q])
         /\ LookupAfterSave(call[p], call[q])
         /\ NoFault
         /\ Returned(p))
            => /\ call[p].ret[3]
               /\ call[p].ret[1] = call[q].ret[1]

\* C17 (amended): the transcript key is looked up and written in the
\* container of the video, so videos of one base name in two containers have
\* two cache entries: a call that returns returns what is said in its own
\* video, a hit comes from the transcript key of its own container, and of
\* two calls for such videos the one whose lookup comes after the other's
\* save still misses.
C17_ContainersApart ==
    /\ \A p \in Procs :
          Returned(p) =>
              /\ call[p].ret[1] = VideoOf(call[p]).data
              /\ call[p].ret[3] =>
                    <<ContainerOf(call[p]), call[p].transcript_key>> \in DOMAIN store
    /\ \A p, q \in Procs :
          (AcrossContainers(call[p], call[q]) /\ LookupAfterSave(call[p], call[q]))
              => /\ Missed(call[p]) \/ FailedAt(call[p], {"cache-check"})
                 /\ call[p].bucket_name # call[q].bucket_name
                 /\ call[p].transcript_key = call[q].transcript_key

\* After one call has cached the transcript of the first video, a call for
\* the second video, of the same base name in the other container, has
\* looked up, missed, and returned its own transcript; each container holds
\* its own.
C17_Witness ==
    \E p, q \in Procs :
        /\ AcrossContainers(call[p], call[q])
        /\ LookupAfterSave(call[p], call[q])
        /\ Returned(p) /\ ~call[p].ret[3]
        /\ call[p].ret[1] = SpeechB /\ call[q].ret[1] = SpeechA
        /\ store[<<"b1", "transcription/a.txt">>] = Body("text", SpeechA)
        /\ store[<<"b2", "transcription/a.txt">>] = Body("text", SpeechB)

\* ---------------------------------------------------------------- C18

\* The call runs transcribe: it did not end at the upload of its video.
Transcribes(c) == c.pc # "idle" /\ ~FailedAt(c, {"upload-video"})

\* Calls for two keys of one container that differ in directory or
\* extension only.
Aliases(c, d) ==
    /\ Transcribes(c) /\ Transcribes(d)
    /\ c.bucket_name = d.bucket_name
    /\ c.key # d.key
    /\ RsplitDotHead(Basename(c.key)) = RsplitDotHead(Basename(d.key))

\* C18: two calls for keys of one container that differ in directory or
\* extension only have the same transcript key and the same audio key; and
\* when the lookup of one comes after the other has cached its transcript,
\* it returns that transcript with is_cached=True, having done no more than
\* the head_object and the get_object of the lookup, whatever is said in its
\* own video.
C18_SameContainerAlias ==
    \A p, q \in Procs :
        LET c == call[p]
            d == call[q]
        IN  Aliases(c, d) =>
              /\ c.transcript_key = d.transcript_key
              /\ c.audio_key = d.audio_key
              /\ LookupAfterSave(c, d) =>
                    /\ Returned(p)
                    /\ c.ret = <<d.ret[1], Split(d.ret[1], ". "), TRUE>>
                    /\ c.trace = <<"head_object", "get_object">>
                    /\ ScratchOf(c) = {}

\* The uploaded video/a.mp4, in which the first speech is said, has been
\* transcribed and cached; a call for video/old/a.mov, in which the second
\* speech is said, has then returned the first speech from the cache.
C18_Witness ==
    \E p, q \in Procs :
        /\ Aliases(call[p], call[q])
        /\ LookupAfterSave(call[p], call[q])
        /\ call[q].key = "video/a.mp4" /\ call[p].key = OldVideo
        /\ call[q].ret = <<SpeechA, Split(SpeechA, ". "), FALSE>>
        /\ call[p].ret = <<SpeechA, Split(SpeechA, ". "), TRUE>>
        /\ VideoOf(call[p]).data = SpeechB

\* ---------------------------------------------------------------- C19

\* Two calls for the same key of the same container.
SameVideoKey(c, d) ==
    /\ Transcribes(c) /\ Transcribes(d)
    /\ c.bucket_name = d.bucket_name
    /\ c.key = d.key

\* The step starts transcribe for call p, after an upload or without one.
Pressed(p) == call[p].pc = "idle" /\ call'[p].pc = "check_cache"

\* C19: no step removes an object kept under transcription/, and the step
\* that uploads a video and starts transcribe changes no object but the
\* video; so a call for a key whose transcript an earlier call has cached
\* returns that transcript with is_cached=True after the head_object and the
\* get_object of the lookup alone, with no download and no scratch file,
\* also when other content has been uploaded under the key since.
C19_StaleAfterReupload ==
    /\ [][/\ \A x \in DOMAIN store :
                StartsWith(x[2], "transcription/") =>
                    x \in DOMAIN store' /\ (store'[x].kind = store[x].kind)
          /\ \A p \in Procs :
                Pressed(p) =>
                    \A x \in DOMAIN store :
                        x # <<call'[p].bucket_name, call'[p].key>>
                            => (x \in DOMAIN store' /\ store'[x] = store[x])]_vars
    /\ [](\A p, q \in Procs :
            LET c == call[p]
                d == call[q]
            IN  (SameVideoKey(c, d) /\ LookupAfterSave(c, d)) =>
                  /\ Returned(p)
                  /\ c.ret[1] = d.ret[1] /\ c.ret[3]
                  /\ ~Has(c, "download_file")
                  /\ Len(c.trace) = 2
                  /\ ScratchOf(c) = {})

\* video/a.mp4 was uploaded with the first speech, transcribed and cached;
\* it was uploaded again with the second speech, and the call that followed
\* the upload returned the first speech from the cache.
C19_Witness ==
    \E p, q \in Procs :
        /\ SameVideoKey(call[p], call[q])
        /\ call[p].s3_video_uri = S3Uri(Library, "video/a.mp4")
        /\ LookupAfterSave(call[p], call[q])
        /\ call[q].ret[1] = SpeechA
        /\ Returned(p) /\ call[p].ret[3] /\ call[p].ret[1] = SpeechA
        /\ store[<<Library, "video/a.mp4">>] = Body("video", SpeechB)
        /\ store[<<Library, "transcription/a.txt">>] = Body("text", SpeechA)

=============================================================================
